---- MODULE Spec2Model ----
(***************************************************************************)
(* Model of ThreeJSManager (src/web/src/renderer/threejs-manager.ts): the  *)
(* scene adapter that mirrors a 2D canvas API onto a three.js scene and    *)
(* turns pointer/touch events into game coordinates.                       *)
(*                                                                         *)
(* The three.js library itself is the environment: a ray cast is a         *)
(* nondeterministic choice between "miss" and a point of the ground plane, *)
(* an object is an opaque handle with a class (Mesh, Line, ...), and       *)
(* dispose() removes a geometry/material from the set of live resources.   *)
(***************************************************************************)
EXTENDS Integers, Sequences, FiniteSets, TLC

(***************************************************************************)
(* JavaScript numbers.  A Number is an IEEE-754 binary64 value; the model  *)
(* keeps the finite values k * 2^-48 with |value| < 2^12 exactly, as sign  *)
(* and magnitude hi + f1 / 2^24 + f2 / 2^48, and rounds every sum to 53    *)
(* significant bits (round to nearest, ties to even) as the hardware does. *)
(* -0 is kept as +0: the two are equal under === .                         *)
(***************************************************************************)
PrecBits == 53

Limb == 2^24

\* fractional bits kept: two limbs
FracBits == 24 + 24

Mag(hi, f1, f2) == [hi |-> hi, f1 |-> f1, f2 |-> f2]

MagZero == Mag(0, 0, 0)

MagLess(a, b) ==
    \/ a.hi < b.hi
    \/ a.hi = b.hi /\ a.f1 < b.f1
    \/ a.hi = b.hi /\ a.f1 = b.f1 /\ a.f2 < b.f2

MagAdd(a, b) ==
    LET s2 == a.f2 + b.f2
        s1 == a.f1 + b.f1 + (s2 \div Limb)
    IN  Mag(a.hi + b.hi + (s1 \div Limb), s1 % Limb, s2 % Limb)

\* a - b for a >= b
MagSub(a, b) ==
    LET d2 == a.f2 - b.f2
        b2 == IF d2 < 0 THEN 1 ELSE 0
        d1 == a.f1 - b.f1 - b2
        b1 == IF d1 < 0 THEN 1 ELSE 0
    IN  Mag(a.hi - b.hi - b1, d1 + b1 * Limb, d2 + b2 * Limb)

\* number of significant bits of a natural number below 2^30
BitLen(n) == IF n = 0 THEN 0 ELSE CHOOSE k \in 1..30 : 2^(k-1) <= n /\ n < 2^k

\* round a magnitude to PrecBits significant bits, nearest, ties to even
RoundMag(m) ==
    LET drop == BitLen(m.hi) + FracBits - PrecBits
    IN  IF m.hi = 0 \/ drop <= 0 THEN m
        ELSE LET q    == 2^drop
                 r    == m.f2 % q
                 kept == m.f2 - r
                 up   == \/ 2 * r > q
                         \/ 2 * r = q /\ (kept \div q) % 2 = 1
             IN  IF up THEN MagAdd(Mag(m.hi, m.f1, kept), Mag(0, 0, q))
                 ELSE Mag(m.hi, m.f1, kept)

Num(neg, m) == [neg |-> neg /\ m # MagZero, m |-> m]

\* an integer as a Number
I2N(i) == Num(i < 0, Mag(IF i < 0 THEN -i ELSE i, 0, 0))

\* the Number k * 2^-48 for 0 <= k < 2^24 (a fraction below 2^-24)
Tiny(k) == Num(FALSE, Mag(0, 0, k))

IsInt(a) == a.m.f1 = 0 /\ a.m.f2 = 0

\* the integer value of an integer-valued Number
N2I(a) == IF a.neg THEN -a.m.hi ELSE a.m.hi

FNeg(a) == Num(~a.neg, a.m)

\* a + b in binary64
FAdd(a, b) ==
    IF a.neg = b.neg THEN Num(a.neg, RoundMag(MagAdd(a.m, b.m)))
    ELSE IF MagLess(a.m, b.m) THEN Num(b.neg, RoundMag(MagSub(b.m, a.m)))
    ELSE Num(a.neg, RoundMag(MagSub(a.m, b.m)))

\* a - b in binary64
FSub(a, b) == FAdd(a, FNeg(b))

\* a >= 0
GE0(a) == ~a.neg

(***************************************************************************)
(* Fields set by the class's initialisers.                                 *)
(***************************************************************************)
gridSize == 40

originalWidth == 800

originalHeight == 600

(***************************************************************************)
(* Objects.  Every three.js object the adapter creates is a handle         *)
(* [k, n, cls]: what made it, a serial number, and its three.js class.     *)
(***************************************************************************)
Obj(k, n, cls) == [k |-> k, n |-> n, cls |-> cls]

\* null
NullObj == Obj("null", 0, "null")

\* the lights the constructor adds to the scene
ConstructorLights ==
    { Obj("ambientLight", 0, "Light"), Obj("directionalLight", 0, "Light"),
      Obj("fillLight", 0, "Light"), Obj("rimLight", 0, "Light") }

\* material colours of the placement cube
AccentColor == "0x00ffee"

InvalidColor == "0xff0000"

\* { x: -1, y: -1 }
Sentinel == [x |-> I2N(-1), y |-> I2N(-1)]

(***************************************************************************)
(* Inputs.                                                                 *)
(***************************************************************************)
\* bound on the initialize() calls that succeed
MaxInit == 2

\* bound on the objects the draw calls create in one run
MaxDraw == 3

\* what the raycaster reports for an event: no intersection, or the first
\* intersection point (its x and z floored to integers) on the ground plane
Miss == [hit |-> FALSE, x |-> 0, z |-> 0]

HitXs == {-400, -280, 400}

HitZs == {-300, -220, 300}

Rays == {Miss} \cup {[hit |-> TRUE, x |-> px, z |-> pz] : px \in HitXs, pz \in HitZs}

\* hit points on either side of the grid lines and on the edges of the plane
GridXs == {-400, -281, -280, -241, 399, 400}

GridZs == {-300, -261, -220, -190, 299, 300}

GridRays == {[hit |-> TRUE, x |-> px, z |-> pz] : px \in GridXs, pz \in GridZs}

\* a touch off the plane and a touch on it
TouchRays == {Miss, [hit |-> TRUE, x |-> -280, z |-> -220]}

\* event.touches.length
TouchCounts == {0, 1, 2}

CircleYs == {18, 20, 100}

CircleRadii == {4, 5, 8, 9, 10, 14, 15, 20}

PreviewXs == {-1, 140}

PreviewYs == {-1, 80}

PreviewRanges == {0, 150}

VARIABLES
    scene,                 \* children of this.scene
    sceneObjects,          \* this.sceneObjects
    liveGeometry,          \* draw-created objects whose geometry is not disposed
    liveMaterial,          \* draw-created objects whose material is not disposed
    created,               \* number of objects the draw calls have created
    listeners,             \* registrations of each handler on the canvas
    attached,              \* elements appended to the container
    groundPlane,           \* this.groundPlane
    towerPreviewMesh,      \* this.towerPreviewMesh
    rangePreviewMesh,      \* this.rangePreviewMesh
    invalidPlacementMesh,  \* this.invalidPlacementMesh
    visible,               \* preview objects whose .visible is true
    previewColor,          \* towerPreviewMesh.material.color
    rangeScale,            \* rangePreviewMesh.scale, in hundredths
    currentHoverPosition,  \* this.currentHoverPosition
    gameApp,               \* window.gameApp && window.gameApp.wasmLoader
    fwd,                   \* wasmLoader.handleClick calls made by the last operation
    lastOp,                \* the last operation and its inputs
    cin,                   \* conversion under test: the input
    cout,                  \* conversion under test: the value so far
    cstage                 \* conversion under test: the steps applied

sceneVars == <<scene, sceneObjects, liveGeometry, liveMaterial, created>>

previewVars == <<groundPlane, towerPreviewMesh, rangePreviewMesh, invalidPlacementMesh,
                 visible, previewColor, rangeScale>>

inputVars == <<currentHoverPosition, gameApp>>

convVars == <<cin, cout, cstage>>

vars == <<scene, sceneObjects, liveGeometry, liveMaterial, created, listeners, attached,
          groundPlane, towerPreviewMesh, rangePreviewMesh, invalidPlacementMesh,
          visible, previewColor, rangeScale, currentHoverPosition, gameApp,
          fwd, lastOp, cin, cout, cstage>>

Op(name, a) == [op |-> name, arg |-> a]

(***************************************************************************)
(* Coordinate conversion.                                                  *)
(***************************************************************************)
\* mutant: the quotient truncated towards zero instead of floored
SnapToGrid_truncating(c) ==
    (IF c < 0 THEN -((-c) \div gridSize) ELSE c \div gridSize) * gridSize + gridSize \div 2

\* Math.floor(c / gridSize) * gridSize + gridSize / 2
SnapToGrid(c) == (c \div gridSize) * gridSize + gridSize \div 2

screenToWorld(ray) ==
    IF groundPlane = NullObj THEN [ok |-> FALSE, x |-> 0, y |-> 0, z |-> 0]
    ELSE IF ray.hit
         THEN [ok |-> TRUE, x |-> SnapToGrid(ray.x), y |-> 0, z |-> SnapToGrid(ray.z)]
         ELSE [ok |-> FALSE, x |-> 0, y |-> 0, z |-> 0]

worldToGameCoords(worldX, worldY, worldZ) ==
    [x |-> FAdd(worldX, I2N(originalWidth \div 2)),
     y |-> FAdd(worldZ, I2N(originalHeight \div 2))]

\* mutant: the half extents swapped
gameToWorldCoords_swapped(gameX, gameY) ==
    [x |-> FSub(gameX, I2N(originalHeight \div 2)),
     y |-> I2N(0),
     z |-> FSub(gameY, I2N(originalWidth \div 2))]

gameToWorldCoords(gameX, gameY) ==
    [x |-> FSub(gameX, I2N(originalWidth \div 2)),
     y |-> I2N(0),
     z |-> FSub(gameY, I2N(originalHeight \div 2))]

\* the adapter after its constructor
InitAdapter ==
    /\ scene = ConstructorLights
    /\ sceneObjects = <<>>
    /\ liveGeometry = {}
    /\ liveMaterial = {}
    /\ created = 0
    /\ listeners = 0
    /\ attached = {}
    /\ groundPlane = NullObj
    /\ towerPreviewMesh = NullObj
    /\ rangePreviewMesh = NullObj
    /\ invalidPlacementMesh = NullObj
    /\ visible = {}
    /\ previewColor = AccentColor
    /\ rangeScale = 100
    /\ currentHoverPosition = Sentinel
    /\ gameApp = FALSE
    /\ fwd = <<>>
    /\ lastOp = Op("constructor", <<>>)

Init ==
    /\ InitAdapter
    /\ cin = <<>>
    /\ cout = <<>>
    /\ cstage = <<>>

Range(q) == {q[i] : i \in 1..Len(q)}

\* obj.visible = b, guarded by "if (obj)"
SetVisible(S, obj, b) ==
    IF obj = NullObj THEN S ELSE IF b THEN S \cup {obj} ELSE S \ {obj}

(***************************************************************************)
(* Lifecycle.                                                              *)
(***************************************************************************)
\* mutant: the container is tested after setupEventListeners()
initializeThrows_registers ==
    /\ listeners < MaxInit
    /\ listeners' = listeners + 1
    /\ lastOp' = Op("initialize", <<"throws">>)
    /\ fwd' = <<>>
    /\ UNCHANGED <<sceneVars, attached, previewVars, inputVars, convVars>>

\* initialize() when document.getElementById finds no container: throws
initializeThrows ==
    /\ lastOp' = Op("initialize", <<"throws">>)
    /\ fwd' = <<>>
    /\ UNCHANGED <<sceneVars, listeners, attached, previewVars, inputVars, convVars>>

\* initialize() with the container present: createGroundPlane(),
\* createTowerPreviewMeshes(), setupEventListeners()
initialize ==
    /\ listeners < MaxInit
    /\ LET n       == listeners + 1
           ground  == Obj("groundPlane", n, "Mesh")
           grid    == Obj("gridHelper", n, "LineSegments")
           tower   == Obj("towerPreviewMesh", n, "Mesh")
           range   == Obj("rangePreviewMesh", n, "Mesh")
           invalid == Obj("invalidPlacementMesh", n, "Group")
       IN  /\ scene' = scene \cup {ground, grid, tower, range, invalid}
           /\ groundPlane' = ground
           /\ towerPreviewMesh' = tower
           /\ rangePreviewMesh' = range
           /\ invalidPlacementMesh' = invalid
           /\ visible' = visible \ {tower, range, invalid}
           /\ previewColor' = AccentColor
           /\ rangeScale' = 100
           /\ listeners' = n
           /\ attached' = {"renderer.domElement", "textCanvas"}
    /\ lastOp' = Op("initialize", <<"ok">>)
    /\ fwd' = <<>>
    /\ UNCHANGED <<sceneObjects, liveGeometry, liveMaterial, created, inputVars, convVars>>

\* the host page assigns window.gameApp (with its wasmLoader)
installGameApp ==
    /\ ~gameApp
    /\ gameApp' = TRUE
    /\ lastOp' = Op("installGameApp", <<>>)
    /\ fwd' = <<>>
    /\ UNCHANGED <<sceneVars, listeners, attached, previewVars, currentHoverPosition, convVars>>

(***************************************************************************)
(* Frame calls.                                                            *)
(***************************************************************************)
\* mutant: the objects are disposed and forgotten but left in the scene
clear_keepsScene ==
    /\ scene' = scene
    /\ liveGeometry' = liveGeometry \ {o \in Range(sceneObjects) : o.cls = "Mesh"}
    /\ liveMaterial' = liveMaterial \ {o \in Range(sceneObjects) : o.cls = "Mesh"}
    /\ sceneObjects' = <<>>
    /\ lastOp' = Op("clear", <<>>)
    /\ fwd' = <<>>
    /\ UNCHANGED <<created, listeners, attached, previewVars, inputVars, convVars>>

\* mutant: the preview objects are hidden with the frame
clear_hidesPreview ==
    /\ scene' = scene \ Range(sceneObjects)
    /\ liveGeometry' = liveGeometry \ {o \in Range(sceneObjects) : o.cls = "Mesh"}
    /\ liveMaterial' = liveMaterial \ {o \in Range(sceneObjects) : o.cls = "Mesh"}
    /\ sceneObjects' = <<>>
    /\ visible' = {}
    /\ lastOp' = Op("clear", <<>>)
    /\ fwd' = <<>>
    /\ UNCHANGED <<created, listeners, attached, groundPlane, towerPreviewMesh,
                   rangePreviewMesh, invalidPlacementMesh, previewColor, rangeScale,
                   inputVars, convVars>>

clear ==
    /\ scene' = scene \ Range(sceneObjects)
    /\ liveGeometry' = liveGeometry \ {o \in Range(sceneObjects) : o.cls = "Mesh"}
    /\ liveMaterial' = liveMaterial \ {o \in Range(sceneObjects) : o.cls = "Mesh"}
    /\ sceneObjects' = <<>>
    /\ lastOp' = Op("clear", <<>>)
    /\ fwd' = <<>>
    /\ UNCHANGED <<created, listeners, attached, previewVars, inputVars, convVars>>

render ==
    /\ lastOp' = Op("render", <<>>)
    /\ fwd' = <<>>
    /\ UNCHANGED <<sceneVars, listeners, attached, previewVars, inputVars, convVars>>

\* new geometry, new material, new object; this.scene.add(o); this.sceneObjects.push(o)
AddTracked(o) ==
    /\ created < MaxDraw
    /\ created' = created + 1
    /\ liveGeometry' = liveGeometry \cup {o}
    /\ liveMaterial' = liveMaterial \cup {o}
    /\ scene' = scene \cup {o}
    /\ sceneObjects' = Append(sceneObjects, o)

drawRect ==
    /\ AddTracked(Obj("drawRect", created + 1, "Mesh"))
    /\ lastOp' = Op("drawRect", <<>>)
    /\ fwd' = <<>>
    /\ UNCHANGED <<listeners, attached, previewVars, inputVars, convVars>>

\* mutant: the minimum radius test made inclusive
CircleSkipped_inclusive(y, radius, fill) ==
    \/ ~fill /\ radius < 15
    \/ y < 20 /\ radius < 10
    \/ radius <= 5

\* the filter at the head of drawCircle
CircleSkipped(y, radius, fill) ==
    \/ ~fill /\ radius < 15
    \/ y < 20 /\ radius < 10
    \/ radius < 5

drawCircle(y, radius, fill) ==
    /\ IF CircleSkipped(y, radius, fill)
       THEN UNCHANGED sceneVars
       ELSE AddTracked(Obj("drawCircle", created + 1, "Mesh"))
    /\ lastOp' = Op("drawCircle", <<y, radius, fill>>)
    /\ fwd' = <<>>
    /\ UNCHANGED <<listeners, attached, previewVars, inputVars, convVars>>

drawLine ==
    /\ AddTracked(Obj("drawLine", created + 1, "Line"))
    /\ lastOp' = Op("drawLine", <<>>)
    /\ fwd' = <<>>
    /\ UNCHANGED <<listeners, attached, previewVars, inputVars, convVars>>

drawTriangle(fill) ==
    /\ AddTracked(Obj("drawTriangle", created + 1, IF fill THEN "Mesh" ELSE "Line"))
    /\ lastOp' = Op("drawTriangle", <<fill>>)
    /\ fwd' = <<>>
    /\ UNCHANGED <<listeners, attached, previewVars, inputVars, convVars>>

\* mutant: both coordinates must be negative
PreviewHidden_both(x, y) == x < 0 /\ y < 0

\* the sentinel test at the head of drawTowerPreview
PreviewHidden(x, y) == x < 0 \/ y < 0

\* mutant: the range disc is shown whenever range > 0
drawTowerPreview_rangeAlways(x, y, canPlace, range) ==
    /\ IF PreviewHidden(x, y)
       THEN /\ visible' = SetVisible(SetVisible(SetVisible(visible,
                              towerPreviewMesh, FALSE),
                              rangePreviewMesh, FALSE),
                              invalidPlacementMesh, FALSE)
            /\ UNCHANGED <<previewColor, rangeScale>>
       ELSE LET showRange == rangePreviewMesh # NullObj /\ range > 0
            IN  /\ visible' = SetVisible(SetVisible(SetVisible(visible,
                                  towerPreviewMesh, TRUE),
                                  rangePreviewMesh, showRange),
                                  invalidPlacementMesh, ~canPlace)
                /\ previewColor' = IF towerPreviewMesh = NullObj THEN previewColor
                                   ELSE IF canPlace THEN AccentColor ELSE InvalidColor
                /\ rangeScale' = IF showRange THEN range ELSE rangeScale
    /\ lastOp' = Op("drawTowerPreview", <<x, y, canPlace, range>>)
    /\ fwd' = <<>>
    /\ UNCHANGED <<sceneVars, listeners, attached, groundPlane, towerPreviewMesh, rangePreviewMesh,
                   invalidPlacementMesh, inputVars, convVars>>

drawTowerPreview(x, y, canPlace, range) ==
    /\ IF PreviewHidden(x, y)
       THEN /\ visible' = SetVisible(SetVisible(SetVisible(visible,
                              towerPreviewMesh, FALSE),
                              rangePreviewMesh, FALSE),
                              invalidPlacementMesh, FALSE)
            /\ UNCHANGED <<previewColor, rangeScale>>
       ELSE LET showRange == rangePreviewMesh # NullObj /\ canPlace /\ range > 0
            IN  /\ visible' = SetVisible(SetVisible(SetVisible(visible,
                                  towerPreviewMesh, TRUE),
                                  rangePreviewMesh, showRange),
                                  invalidPlacementMesh, ~canPlace)
                /\ previewColor' = IF towerPreviewMesh = NullObj THEN previewColor
                                   ELSE IF canPlace THEN AccentColor ELSE InvalidColor
                /\ rangeScale' = IF showRange THEN range ELSE rangeScale
    /\ lastOp' = Op("drawTowerPreview", <<x, y, canPlace, range>>)
    /\ fwd' = <<>>
    /\ UNCHANGED <<sceneVars, listeners, attached, groundPlane, towerPreviewMesh, rangePreviewMesh,
                   invalidPlacementMesh, inputVars, convVars>>

(***************************************************************************)
(* Input handlers.  A handler maps the fields it touches,                  *)
(* [hover, fwd, visible], to their values after it has run.                *)
(***************************************************************************)
hoverAt(worldPos) == worldToGameCoords(I2N(worldPos.x), I2N(worldPos.y), I2N(worldPos.z))

\* mutant: a miss resets the hover position
handleMouseMove_missResets(st, ray) ==
    LET worldPos == screenToWorld(ray)
    IN  IF worldPos.ok THEN [st EXCEPT !.hover = hoverAt(worldPos)]
        ELSE [st EXCEPT !.hover = Sentinel]

handleMouseMove(st, ray) ==
    LET worldPos == screenToWorld(ray)
    IN  IF worldPos.ok THEN [st EXCEPT !.hover = hoverAt(worldPos)] ELSE st

\* mutant: the range disc is left as it is
handleMouseLeave_keepsRange(st) ==
    [st EXCEPT !.hover = Sentinel,
               !.visible = SetVisible(SetVisible(@,
                               towerPreviewMesh, FALSE),
                               invalidPlacementMesh, FALSE)]

handleMouseLeave(st) ==
    [st EXCEPT !.hover = Sentinel,
               !.visible = SetVisible(SetVisible(SetVisible(@,
                               towerPreviewMesh, FALSE),
                               rangePreviewMesh, FALSE),
                               invalidPlacementMesh, FALSE)]

\* mutant: the click forwards the stored hover position
handleClick_fromHover(st, ray) ==
    LET worldPos == screenToWorld(ray)
    IN  IF worldPos.ok /\ gameApp
        THEN [st EXCEPT !.fwd = Append(@, st.hover)]
        ELSE st

handleClick(st, ray) ==
    LET worldPos == screenToWorld(ray)
    IN  IF worldPos.ok /\ gameApp
        THEN [st EXCEPT !.fwd = Append(@, hoverAt(worldPos))]
        ELSE st

handleTouchStart(st, touches, ray) ==
    LET worldPos == screenToWorld(ray)
    IN  IF touches = 1 /\ worldPos.ok THEN [st EXCEPT !.hover = hoverAt(worldPos)] ELSE st

handleTouchMove(st, touches, ray) ==
    LET worldPos == screenToWorld(ray)
    IN  IF touches = 1 /\ worldPos.ok THEN [st EXCEPT !.hover = hoverAt(worldPos)] ELSE st

\* mutant: the hover position is not reset
handleTouchEnd_keepsHover(st) ==
    LET sent == IF gameApp /\ GE0(st.hover.x) /\ GE0(st.hover.y)
                THEN Append(st.fwd, st.hover) ELSE st.fwd
    IN  [st EXCEPT !.fwd = sent]

\* mutant: the validity test of the hover position is missing
handleTouchEnd_unchecked(st) ==
    LET sent == IF gameApp THEN Append(st.fwd, st.hover) ELSE st.fwd
    IN  [st EXCEPT !.fwd = sent, !.hover = Sentinel]

handleTouchEnd(st) ==
    LET sent == IF gameApp /\ GE0(st.hover.x) /\ GE0(st.hover.y)
                THEN Append(st.fwd, st.hover) ELSE st.fwd
    IN  [st EXCEPT !.fwd = sent, !.hover = Sentinel]

\* an event: its type, event.touches.length (touch events) and what the
\* raycaster reports for its position
Event(type, touches, ray) == [type |-> type, touches |-> touches, ray |-> ray]

\* the listener setupEventListeners registers for the event's type
RunHandler(ev, st) ==
    CASE ev.type = "mousemove"  -> handleMouseMove(st, ev.ray)
      [] ev.type = "mouseleave" -> handleMouseLeave(st)
      [] ev.type = "click"      -> handleClick(st, ev.ray)
      [] ev.type = "touchstart" -> handleTouchStart(st, ev.touches, ev.ray)
      [] ev.type = "touchmove"  -> handleTouchMove(st, ev.touches, ev.ray)
      [] ev.type = "touchend"   -> handleTouchEnd(st)

\* the browser runs every registered listener of the event, in order
RECURSIVE Dispatch(_, _, _)
Dispatch(ev, st, n) == IF n = 0 THEN st ELSE Dispatch(ev, RunHandler(ev, st), n - 1)

Deliver(ev, arg) ==
    LET st == Dispatch(ev, [hover |-> currentHoverPosition, fwd |-> <<>>,
                            visible |-> visible], listeners)
    IN  /\ currentHoverPosition' = st.hover
        /\ fwd' = st.fwd
        /\ visible' = st.visible
        /\ lastOp' = Op(ev.type, arg)
        /\ UNCHANGED <<sceneVars, listeners, attached, groundPlane, towerPreviewMesh,
                       rangePreviewMesh, invalidPlacementMesh, previewColor,
                       rangeScale, gameApp, convVars>>

MouseMove(ray) == Deliver(Event("mousemove", 0, ray), <<ray>>)

MouseLeave == Deliver(Event("mouseleave", 0, Miss), <<>>)

Click(ray) == Deliver(Event("click", 0, ray), <<ray>>)

TouchStart(touches, ray) == Deliver(Event("touchstart", touches, ray), <<touches, ray>>)

TouchMove(touches, ray) == Deliver(Event("touchmove", touches, ray), <<touches, ray>>)

\* event.touches is not read by handleTouchEnd
TouchEnd == Deliver(Event("touchend", 0, Miss), <<>>)

(***************************************************************************)
(* The callers.  The host's frame driver calls clear(), the draw calls and *)
(* render(); the preview is redrawn by drawTowerPreview; the browser       *)
(* delivers the input events.  The three groups write disjoint variables   *)
(* (sceneVars; visible, previewColor, rangeScale; currentHoverPosition and *)
(* fwd) and share only what initialize() sets, so the adapter's state      *)
(* space is the product of the three parts, each with initialize().        *)
(***************************************************************************)
Lifecycle ==
    \/ initializeThrows
    \/ initialize

FrameCalls ==
    \/ clear
    \/ render
    \/ drawRect
    \/ \E y \in CircleYs, radius \in CircleRadii, fill \in BOOLEAN : drawCircle(y, radius, fill)
    \/ drawLine
    \/ \E fill \in BOOLEAN : drawTriangle(fill)

PreviewCalls ==
    \/ \E x \in PreviewXs, y \in PreviewYs, canPlace \in BOOLEAN, range \in PreviewRanges :
           drawTowerPreview(x, y, canPlace, range)
    \/ MouseLeave
    \/ clear

InputEvents ==
    \/ installGameApp
    \/ \E ray \in Rays : MouseMove(ray)
    \/ MouseLeave
    \/ \E ray \in Rays : Click(ray)
    \/ \E touches \in TouchCounts, ray \in Rays : TouchStart(touches, ray)
    \/ \E touches \in TouchCounts, ray \in Rays : TouchMove(touches, ray)
    \/ TouchEnd

Next == Lifecycle \/ FrameCalls \/ PreviewCalls \/ InputEvents

Spec == Init /\ [][Next]_vars

\* the adapter under the frame driver
NextFrame == Lifecycle \/ FrameCalls

SpecFrame == Init /\ [][NextFrame]_vars

\* the adapter under the preview calls
NextPreview == Lifecycle \/ PreviewCalls

SpecPreview == Init /\ [][NextPreview]_vars

\* the adapter under the input events
NextInput == Lifecycle \/ InputEvents

SpecInput == Init /\ [][NextInput]_vars

\* the adapter under the preview calls between the frame's draw calls
NextPreviewFrame == Lifecycle \/ PreviewCalls \/ drawRect \/ drawLine

SpecPreviewFrame == Init /\ [][NextPreviewFrame]_vars

\* the pointer moved and clicked over the plane, and touches ended
GridEvents ==
    \/ installGameApp
    \/ \E ray \in GridRays : MouseMove(ray)
    \/ \E ray \in GridRays : Click(ray)
    \/ TouchEnd

NextGrid == Lifecycle \/ GridEvents

SpecGrid == Init /\ [][NextGrid]_vars

\* the adapter under the preview calls while the pointer moves
NextHover == Lifecycle \/ PreviewCalls \/ \E ray \in Rays : MouseMove(ray)

SpecHover == Init /\ [][NextHover]_vars

\* every event, the touches at two positions
PointerEvents ==
    \/ installGameApp
    \/ \E ray \in Rays : MouseMove(ray)
    \/ MouseLeave
    \/ \E ray \in Rays : Click(ray)
    \/ \E touches \in TouchCounts, ray \in TouchRays : TouchStart(touches, ray)
    \/ \E touches \in TouchCounts, ray \in TouchRays : TouchMove(touches, ray)
    \/ TouchEnd

\* the adapter under the input events, with a rectangle drawn and the preview
\* shown between them
NextPointer ==
    \/ Lifecycle
    \/ PointerEvents
    \/ drawRect
    \/ drawTowerPreview(140, 80, TRUE, 150)

SpecPointer == Init /\ [][NextPointer]_vars

(***************************************************************************)
(* The conversions on their own: an input is drawn, and the conversions    *)
(* and the grid snap are applied to it one after the other; cout keeps the *)
(* successive results and cstage the names of the steps.                   *)
(***************************************************************************)
\* bound on the magnitude of the coordinates the grid snap is applied to
MaxPoint == 100

\* Numbers the conversions are applied to: integers in and around the game
\* area, and fractions down to 2^-48
NumSamples ==
    { I2N(-400), I2N(-1), I2N(0), I2N(80), I2N(120), I2N(300), I2N(400), I2N(800),
      Num(FALSE, Mag(0, Limb \div 2, 0)),      \* 0.5
      Tiny(8),                                 \* 2^-45
      FNeg(Tiny(12)),                          \* -3 * 2^-46
      Num(FALSE, Mag(1, 0, 1)) }               \* 1 + 2^-48

PointInputs == {[kind |-> "point", a |-> a, b |-> b] : a \in NumSamples, b \in NumSamples}

CoordInputs == {[kind |-> "coord", c |-> c] : c \in (-MaxPoint)..MaxPoint}

InitConv ==
    /\ InitAdapter
    /\ cin \in PointInputs \/ cin \in CoordInputs
    /\ cout = <<>>
    /\ cstage = <<>>

ConvStep(name, result) ==
    /\ cout' = Append(cout, result)
    /\ cstage' = Append(cstage, name)
    /\ UNCHANGED <<cin, sceneVars, listeners, attached, previewVars, inputVars, fwd, lastOp>>

\* gameToWorldCoords of the input, or of the game point just computed
ConvGameToWorld ==
    /\ cin.kind = "point"
    /\ cstage \in {<<>>, <<"worldToGameCoords">>}
    /\ ConvStep("gameToWorldCoords",
                IF cstage = <<>> THEN gameToWorldCoords(cin.a, cin.b)
                ELSE gameToWorldCoords(cout[1].x, cout[1].y))

\* worldToGameCoords of the input taken on the ground plane (y = 0), or of the
\* world point just computed
ConvWorldToGame ==
    /\ cin.kind = "point"
    /\ cstage \in {<<>>, <<"gameToWorldCoords">>}
    /\ ConvStep("worldToGameCoords",
                IF cstage = <<>> THEN worldToGameCoords(cin.a, I2N(0), cin.b)
                ELSE worldToGameCoords(cout[1].x, cout[1].y, cout[1].z))

\* the grid snap of the input, or of the coordinate just snapped
ConvSnap ==
    /\ cin.kind = "coord"
    /\ Len(cstage) < 2
    /\ ConvStep("snap", IF cstage = <<>> THEN SnapToGrid(cin.c) ELSE SnapToGrid(cout[1]))

NextConv ==
    \/ ConvGameToWorld
    \/ ConvWorldToGame
    \/ ConvSnap

SpecConv == InitConv /\ [][NextConv]_vars

(***************************************************************************)
(* The claims.                                                             *)
(***************************************************************************)
DrawCalls == {"drawRect", "drawCircle", "drawLine", "drawTriangle"}

DrawnInScene == {o \in scene : o.k \in DrawCalls}

Pos(x, y) == [x |-> I2N(x), y |-> I2N(y)]

\* the ray that meets the ground plane at the game point (gx, gy)
RayAtGame(gx, gy) ==
    [hit |-> TRUE, x |-> gx - originalWidth \div 2, z |-> gy - originalHeight \div 2]

\* the hit point of a ray, snapped as screenToWorld snaps it, in game coordinates
SnappedGame(ray) ==
    Pos((ray.x \div gridSize) * gridSize + gridSize \div 2 + originalWidth \div 2,
        (ray.z \div gridSize) * gridSize + gridSize \div 2 + originalHeight \div 2)

\* C1 (as claimed): after clear() the geometry and the material of every
\* primitive that was tracked have been disposed: no draw-created resource is
\* still live.  False of the code: clear() disposes only instances of Mesh, so
\* the Line objects of drawLine and of drawTriangle(fill = false) leak.
C1_AllDisposedAfterClear ==
    lastOp.op = "clear" => liveGeometry = {} /\ liveMaterial = {}

\* C2: the tracked collection holds exactly the draw-created objects that are
\* in the scene, each once; a draw call that adds an object appends it; and
\* right after clear() the collection is empty and no draw-created object is
\* in the scene.
C2_TrackedIsDrawnInScene ==
    /\ DrawnInScene = Range(sceneObjects)
    /\ Cardinality(Range(sceneObjects)) = Len(sceneObjects)
    /\ lastOp.op \in {"drawRect", "drawLine", "drawTriangle"} =>
           /\ sceneObjects # <<>>
           /\ sceneObjects[Len(sceneObjects)].k = lastOp.op
           /\ sceneObjects[Len(sceneObjects)].n = created
           /\ sceneObjects[Len(sceneObjects)] \in scene
    /\ lastOp.op = "clear" => sceneObjects = <<>> /\ DrawnInScene = {}

\* C2 witness: clear() has just run after draw calls on an initialized adapter,
\* whose ground plane and preview objects are still in the scene.
C2_Witness ==
    /\ lastOp.op = "clear"
    /\ created >= 2
    /\ groundPlane \in scene
    /\ sceneObjects = <<>>

\* C3 (as claimed): a click whose ray meets the ground plane at the game point
\* (120, 80), on an adapter initialized once with the handler installed, calls
\* the handler exactly once with (120, 80).
C3_Original ==
    (lastOp.op = "click" /\ lastOp.arg[1] = RayAtGame(120, 80) /\ listeners = 1 /\ gameApp)
        => fwd = <<Pos(120, 80)>>

\* C3 (amended): with the handler installed, that click is forwarded as
\* (140, 80), the hit snapped in world space, once per registered click
\* listener (exactly once after a single initialize()); and no click ever
\* forwards x = 120: a forwarded x is always 20 more than a multiple of 40.
C3_ClickForwardsSnapped ==
    /\ (lastOp.op = "click" /\ lastOp.arg[1] = RayAtGame(120, 80) /\ gameApp)
           => /\ Len(fwd) = listeners
              /\ \A i \in 1..Len(fwd) : fwd[i] = Pos(140, 80)
    /\ lastOp.op = "click"
           => \A i \in 1..Len(fwd) : IsInt(fwd[i].x) /\ N2I(fwd[i].x) % 40 = 20

\* C3 witness: the click at the game point (120, 80) was forwarded once.
C3_Witness ==
    /\ lastOp.op = "click"
    /\ lastOp.arg[1] = RayAtGame(120, 80)
    /\ listeners = 1
    /\ fwd = <<Pos(140, 80)>>

\* C4 (as claimed): a click or a touch end calls the handler only if the
\* stored hover position is not the sentinel, and passes that hover position.
C4_Original ==
    [][ (lastOp'.op \in {"click", "touchend"} /\ fwd' # <<>>)
            => /\ currentHoverPosition # Sentinel
               /\ \A i \in 1..Len(fwd') : fwd'[i] = currentHoverPosition ]_vars

\* C4 (amended): a touch end calls the handler only if the stored hover
\* position is not the sentinel, once, with that position, and forwards
\* nothing when it is the sentinel; a click calls the handler exactly when its
\* own ray hits the ground plane (handler installed, listener registered), and
\* passes the snapped game coordinates of that hit, whatever the hover
\* position is.
C4_ForwardedPosition ==
    [][ /\ lastOp'.op = "touchend" =>
               /\ fwd' # <<>> => /\ currentHoverPosition # Sentinel
                                 /\ fwd' = <<currentHoverPosition>>
               /\ currentHoverPosition = Sentinel => fwd' = <<>>
        /\ lastOp'.op = "click" =>
               /\ fwd' # <<>> <=> (lastOp'.arg[1].hit /\ gameApp /\ listeners > 0)
               /\ \A i \in 1..Len(fwd') : fwd'[i] = SnappedGame(lastOp'.arg[1]) ]_vars

\* C4 witness: a click was forwarded while the hover position is the sentinel
\* (a click does not write the hover position).
C4_Witness ==
    /\ lastOp.op = "click"
    /\ fwd # <<>>
    /\ currentHoverPosition = Sentinel

\* C5 (as claimed): one click event or one touch-end event makes at most one
\* call to the external handler.  False of the code: every successful
\* initialize() registers the listeners again, and each registered click
\* listener forwards the click.
C5_AtMostOneCall ==
    lastOp.op \in {"click", "touchend"} => Len(fwd) <= 1

\* C6: drawCircle adds nothing to the scene and to the tracked collection when
\* (fill is false and radius < 15) or (y < 20 and radius < 10) or radius < 5,
\* and otherwise adds exactly one object to both.
C6_CircleFilter ==
    [][ lastOp'.op = "drawCircle" =>
            LET y      == lastOp'.arg[1]
                radius == lastOp'.arg[2]
                fill   == lastOp'.arg[3]
            IN  IF (~fill /\ radius < 15) \/ (y < 20 /\ radius < 10) \/ radius < 5
                THEN scene' = scene /\ sceneObjects' = sceneObjects
                ELSE /\ Len(sceneObjects') = Len(sceneObjects) + 1
                     /\ SubSeq(sceneObjects', 1, Len(sceneObjects)) = sceneObjects
                     /\ scene \subseteq scene'
                     /\ scene' \ scene = {sceneObjects'[Len(sceneObjects')]} ]_vars

\* C6 witness: drawCircle(x, 100, 20, .., true) has added its sphere.
C6_Witness ==
    /\ lastOp.op = "drawCircle"
    /\ lastOp.arg = <<100, 20, TRUE>>
    /\ sceneObjects # <<>>
    /\ sceneObjects[Len(sceneObjects)] = Obj("drawCircle", created, "Mesh")

\* C7: after drawTowerPreview with x < 0 or y < 0, the placement cube, the
\* range disc and the invalid-marker are all invisible.
C7_SentinelHidesPreview ==
    (lastOp.op = "drawTowerPreview" /\ (lastOp.arg[1] < 0 \/ lastOp.arg[2] < 0))
        => {towerPreviewMesh, rangePreviewMesh, invalidPlacementMesh} \cap visible = {}

\* C7 witness: the preview objects exist, the range disc has been shown (its
\* scale was set), and a call with only one negative coordinate has hidden them.
C7_Witness ==
    /\ lastOp.op = "drawTowerPreview"
    /\ lastOp.arg[1] < 0
    /\ lastOp.arg[2] >= 0
    /\ towerPreviewMesh # NullObj
    /\ rangeScale = 150
    /\ visible = {}

\* C8: after drawTowerPreview(x, y, canPlace, range) with x >= 0 and y >= 0 on
\* an adapter whose preview objects exist, the cube is visible, accent-coloured
\* if canPlace and red otherwise; the invalid-marker is visible exactly when
\* canPlace is false; the range disc is visible only when canPlace is true,
\* and is then scaled to range.
C8_PreviewSemantics ==
    (/\ lastOp.op = "drawTowerPreview"
     /\ lastOp.arg[1] >= 0
     /\ lastOp.arg[2] >= 0
     /\ towerPreviewMesh # NullObj)
        => LET canPlace == lastOp.arg[3]
               range    == lastOp.arg[4]
           IN  /\ towerPreviewMesh \in visible
               /\ previewColor = IF canPlace THEN AccentColor ELSE InvalidColor
               /\ invalidPlacementMesh \in visible <=> ~canPlace
               /\ rangePreviewMesh \in visible => canPlace /\ rangeScale = range

\* C8 witness: a placeable preview with a range: cube and disc visible.
C8_Witness ==
    /\ lastOp.op = "drawTowerPreview"
    /\ lastOp.arg = <<140, 80, TRUE, 150>>
    /\ towerPreviewMesh \in visible
    /\ rangePreviewMesh \in visible
    /\ invalidPlacementMesh \notin visible

\* C9 (as claimed): for all (x, y), worldToGameCoords(gameToWorldCoords(x, y))
\* is (x, y), and for all (wx, wz), gameToWorldCoords(worldToGameCoords(wx, 0,
\* wz)) is (wx, 0, wz), exactly.
C9_Original ==
    /\ cstage = <<"gameToWorldCoords", "worldToGameCoords">>
           => cout[2] = [x |-> cin.a, y |-> cin.b]
    /\ cstage = <<"worldToGameCoords", "gameToWorldCoords">>
           => cout[2] = [x |-> cin.a, y |-> I2N(0), z |-> cin.b]

\* C9 (amended): the two round trips are exact for integer-valued
\* coordinates (the shift by the half extents is then exact in binary64).
C9_RoundTripIntegers ==
    (cin.kind = "point" /\ IsInt(cin.a) /\ IsInt(cin.b)) =>
        /\ cstage = <<"gameToWorldCoords", "worldToGameCoords">>
               => cout[2] = [x |-> cin.a, y |-> cin.b]
        /\ cstage = <<"worldToGameCoords", "gameToWorldCoords">>
               => cout[2] = [x |-> cin.a, y |-> I2N(0), z |-> cin.b]

\* C9 witness: the game point (120, 80) taken to the world and back.
C9_Witness ==
    /\ cstage = <<"gameToWorldCoords", "worldToGameCoords">>
    /\ cin.a = I2N(120)
    /\ cin.b = I2N(80)
    /\ cout = <<[x |-> I2N(-280), y |-> I2N(0), z |-> I2N(-220)], Pos(120, 80)>>

\* C10: the grid snap applied to a coordinate that is already a result of the
\* snap returns that coordinate, for negative and positive coordinates.
C10_SnapIdempotent ==
    cstage = <<"snap", "snap">> => cout[2] = cout[1]

\* C10 witness: a negative coordinate that is not a cell centre, snapped twice.
C10_Witness ==
    /\ cstage = <<"snap", "snap">>
    /\ cin.c = -41
    /\ cout = <<-60, -60>>

\* the three preview objects the adapter holds
Previews == {towerPreviewMesh, rangePreviewMesh, invalidPlacementMesh}

\* C11: a pointer leave sets the hover position to the sentinel and leaves the
\* placement cube, the range disc and the invalid-marker the adapter holds all
\* invisible, whatever the state before; and once the three are invisible they
\* stay invisible across every step that is not a drawTowerPreview call with
\* x >= 0 and y >= 0.
C11_PointerLeaveHides ==
    [][ /\ lastOp'.op = "mouseleave" =>
               /\ currentHoverPosition' = Sentinel
               /\ {towerPreviewMesh', rangePreviewMesh', invalidPlacementMesh'}
                      \cap visible' = {}
        /\ (/\ Previews \cap visible = {}
            /\ ~(/\ lastOp'.op = "drawTowerPreview"
                 /\ lastOp'.arg[1] >= 0
                 /\ lastOp'.arg[2] >= 0))
               => {towerPreviewMesh', rangePreviewMesh', invalidPlacementMesh'}
                      \cap visible' = {} ]_vars

\* C11 witness: a pointer leave on an initialized adapter whose preview had
\* been drawn as not placeable (the cube is still red) after the range disc
\* had been shown (its scale was set): nothing is visible, hover is the sentinel.
C11_Witness ==
    /\ lastOp.op = "mouseleave"
    /\ listeners = 1
    /\ towerPreviewMesh # NullObj
    /\ previewColor = InvalidColor
    /\ rangeScale = 150
    /\ visible = {}
    /\ currentHoverPosition = Sentinel

\* C12: an initialize() that fails for want of the container changes nothing
\* of the adapter; and as long as no initialize() has succeeded, nothing is
\* attached to a container, there is no ground plane and no preview object,
\* the scene holds only the constructor's lights, no listener is registered,
\* the hover position is the sentinel and no event forwards a click.
C12_FailedInitialize ==
    [][ /\ (lastOp'.op = "initialize" /\ lastOp'.arg = <<"throws">>) =>
               /\ UNCHANGED <<sceneVars, listeners, attached, previewVars, inputVars>>
               /\ fwd' = <<>>
        /\ listeners' = 0 =>
               /\ attached' = {}
               /\ groundPlane' = NullObj
               /\ towerPreviewMesh' = NullObj
               /\ rangePreviewMesh' = NullObj
               /\ invalidPlacementMesh' = NullObj
               /\ scene' = ConstructorLights
               /\ visible' = {}
               /\ currentHoverPosition' = Sentinel
               /\ fwd' = <<>> ]_vars

\* C12 witness: initialize() has just failed on an adapter that was never
\* initialized, with the external handler installed.
C12_Witness ==
    /\ lastOp = Op("initialize", <<"throws">>)
    /\ gameApp
    /\ listeners = 0
    /\ attached = {}
    /\ groundPlane = NullObj

\* the event just delivered carried a ray that missed the ground plane
MissedNext ==
    \/ lastOp'.op \in {"mousemove", "click"} /\ ~lastOp'.arg[1].hit
    \/ lastOp'.op \in {"touchstart", "touchmove"} /\ ~lastOp'.arg[2].hit

\* C13: a mouse move, touch start, touch move or click whose ray misses the
\* ground plane calls the external handler zero times and leaves the hover
\* position, the scene, the tracked collection and the preview visibility as
\* they were; a mouse move or touch move that hits calls the handler zero
\* times and changes nothing of the adapter but the hover position.
C13_MissIsNoOp ==
    [][ /\ MissedNext =>
               /\ fwd' = <<>>
               /\ UNCHANGED <<currentHoverPosition, sceneVars, visible>>
        /\ (\/ lastOp'.op = "mousemove" /\ lastOp'.arg[1].hit
            \/ lastOp'.op = "touchmove" /\ lastOp'.arg[2].hit) =>
               /\ fwd' = <<>>
               /\ UNCHANGED <<sceneVars, listeners, attached, previewVars, gameApp>> ]_vars

\* C13 witness: a click that missed, on an initialized adapter with the
\* handler installed, a hover position stored, a rectangle tracked and the
\* preview cube visible.
C13_Witness ==
    /\ lastOp.op = "click"
    /\ ~lastOp.arg[1].hit
    /\ gameApp
    /\ listeners = 1
    /\ sceneObjects # <<>>
    /\ currentHoverPosition = Pos(140, 80)
    /\ towerPreviewMesh \in visible
    /\ fwd = <<>>

\* the event just delivered stored a hover position: a mouse move, or a
\* single-finger touch start or touch move, whose ray hit the ground plane
\* with a listener registered
HoverSetNext ==
    /\ listeners > 0
    /\ \/ lastOp'.op = "mousemove" /\ lastOp'.arg[1].hit
       \/ /\ lastOp'.op \in {"touchstart", "touchmove"}
          /\ lastOp'.arg[1] = 1
          /\ lastOp'.arg[2].hit

\* C14: after a touch end the hover position is the sentinel, whether or not
\* the touch end forwarded a click; a sentinel hover position stays the
\* sentinel across every step that is not an event that hits the ground plane
\* and stores a position; and a touch end delivered while the hover position
\* is the sentinel forwards nothing.  Hence the second of two touch ends with
\* no such event between them forwards nothing.
C14_TouchEndResets ==
    [][ /\ lastOp'.op = "touchend" => currentHoverPosition' = Sentinel
        /\ (currentHoverPosition = Sentinel /\ ~HoverSetNext)
               => currentHoverPosition' = Sentinel
        /\ (currentHoverPosition = Sentinel /\ lastOp'.op = "touchend")
               => fwd' = <<>> ]_vars

\* C14 witness: a touch end run by two registered listeners: the first
\* forwarded the stored position and reset it, the second forwarded nothing.
C14_Witness ==
    /\ lastOp.op = "touchend"
    /\ listeners = 2
    /\ gameApp
    /\ fwd = <<Pos(140, 80)>>
    /\ currentHoverPosition = Sentinel

\* the hit point of a ray in game coordinates
GameX(ray) == ray.x + originalWidth \div 2

GameY(ray) == ray.z + originalHeight \div 2

\* the centre of the 40-unit cell, aligned to the origin, that contains g
CellCentre(g) == (g \div 40) * 40 + 20

\* C15 (as claimed): the position a mouse move stores and a click forwards is
\* the centre of the game-grid cell containing the hit's game point:
\* x = floor(gx / 40) * 40 + 20 and y = floor(gy / 40) * 40 + 20.  False of the
\* code: the snap centres the hit in the world grid, and the game origin is
\* 300 units, which is not a whole number of cells, from the world origin in
\* z, so the y stored and forwarded is a multiple of 40, a cell boundary.
C15_Original ==
    /\ (lastOp.op = "mousemove" /\ listeners > 0) =>
           currentHoverPosition =
               Pos(CellCentre(GameX(lastOp.arg[1])), CellCentre(GameY(lastOp.arg[1])))
    /\ lastOp.op = "click" =>
           \A i \in 1..Len(fwd) :
               fwd[i] = Pos(CellCentre(GameX(lastOp.arg[1])), CellCentre(GameY(lastOp.arg[1])))

\* C16 (as claimed), for the shortest ignored gesture: a touch start that is
\* not a single-finger hit of the ground plane, followed at once by the touch
\* end, makes no call to the external handler, whatever came before.  False of
\* the code: the touch end forwards the hover position a mouse move stored
\* before the gesture.
C16_Original ==
    [][ (/\ lastOp.op = "touchstart"
         /\ ~(lastOp.arg[1] = 1 /\ lastOp.arg[2].hit)
         /\ lastOp'.op = "touchend")
            => fwd' = <<>> ]_vars

\* C17: in every state, of the preview objects of each initialize(), those the
\* adapter holds included, the range disc and the invalid-marker are never
\* both visible, and if either is visible the placement cube is visible; and
\* clear() leaves the visibility of every object as it was.
C17_PreviewVisibility ==
    [][ /\ \A n \in 1..listeners' :
               /\ ~(/\ Obj("rangePreviewMesh", n, "Mesh") \in visible'
                    /\ Obj("invalidPlacementMesh", n, "Group") \in visible')
               /\ (\/ Obj("rangePreviewMesh", n, "Mesh") \in visible'
                   \/ Obj("invalidPlacementMesh", n, "Group") \in visible')
                      => Obj("towerPreviewMesh", n, "Mesh") \in visible'
        /\ (rangePreviewMesh' \in visible' \/ invalidPlacementMesh' \in visible')
               => towerPreviewMesh' \in visible'
        /\ ~(rangePreviewMesh' \in visible' /\ invalidPlacementMesh' \in visible')
        /\ lastOp'.op = "clear" => visible' = visible ]_vars

\* C17 witness: clear() has removed tracked objects from the scene while the
\* placement cube and the range disc were visible, and they still are.
C17_Witness ==
    /\ lastOp.op = "clear"
    /\ created >= 1
    /\ sceneObjects = <<>>
    /\ visible = {towerPreviewMesh, rangePreviewMesh}
    /\ towerPreviewMesh # NullObj

\* C18 (as claimed): the hover position is the sentinel or a point with
\* 0 <= x <= 800 and 0 <= y <= 600, for hits anywhere on the ground plane, its
\* edges included; and the touch-end test x >= 0 /\ y >= 0 fails for the
\* sentinel only.  False of the code: a hit on the edge x = 400 of the plane is
\* snapped to the centre of the cell beyond the edge, world x = 420, and is
\* stored as x = 820.
C18_HoverInGameArea ==
    /\ \/ currentHoverPosition = Sentinel
       \/ /\ IsInt(currentHoverPosition.x)
          /\ IsInt(currentHoverPosition.y)
          /\ N2I(currentHoverPosition.x) \in 0..originalWidth
          /\ N2I(currentHoverPosition.y) \in 0..originalHeight
    /\ (GE0(currentHoverPosition.x) /\ GE0(currentHoverPosition.y))
           <=> currentHoverPosition # Sentinel

====
